---- MODULE Spec2Model ----
(***************************************************************************)
(* Model of the ctrade decision pipeline (src/Vorschlag):                  *)
(*   news_aggregator.py  NewsAggregator: fan-out over the news clients,    *)
(*                       deduplication, aggregation, the 5 minute cache    *)
(*   market_analyzer.py  MarketAnalyzer: oracle call and reply parsing     *)
(*                                                                         *)
(* Units.  Clock values are whole minutes.  published_at is an abstract    *)
(* instant (an integer); a datetime also carries whether it is timezone    *)
(* aware, because Python refuses to order an aware against a naive one.    *)
(* Fractions (confidence, position_size_modifier, sentiment scores) are    *)
(* integers in hundredths: 0.3 is 30, 0.25 is 25.                          *)
(*                                                                         *)
(* Not modelled: article symbols and categories (trending_symbols and      *)
(* key_themes of MarketNews), MarketNews.fetch_time, the prompt text.      *)
(***************************************************************************)
EXTENDS Integers, Sequences, FiniteSets, TLC

VARIABLES
    clients,      \* NewsAggregator._clients: the registered client names
    cache,        \* NewsAggregator._cache: dict cache_key -> (time, articles)
    now,          \* datetime.now(), in minutes
    calls,        \* per caller: the get_market_news / get_symbol_news coroutine
    served,       \* history: article lists served from the slot since its last write
    market_news,  \* analyze_market argument: the MarketNews handed to the analyzer
    oracle,       \* what the external oracle does with the request
    analysis,     \* the analyze_market call: position and outcome
    rm,           \* RiskManager: total_capital and the limits
    sizing,       \* the calculate_position_size calls: arguments, count, results
    bot,          \* AITradingBot: is_running, current_regime, cycle_count, the
                  \* position of start() and the passes in progress
    cycle,        \* the running _trading_cycle: its locals and what it has done
    resources,    \* the broker connection and the fetcher sessions
    stop          \* a shutdown() call made while start() runs

vars == <<clients, cache, now, calls, served, market_news, oracle, analysis,
          rm, sizing, bot, cycle, resources, stop>>

newsVars == <<clients, cache, now, calls, served>>
analyzerVars == <<market_news, oracle, analysis>>
riskVars == <<rm, sizing>>
botVars == <<bot, cycle, resources, stop>>

(***************************************************************************)
(* Bounds                                                                  *)
(***************************************************************************)
MaxBatch == 2      \* articles delivered by all fetchers together in one pass
MaxTime == 6       \* last clock value (minutes)
MaxTokens == 3     \* tokens in one oracle reply
MaxCalls == 2      \* calculate_position_size calls on one RiskManager
MaxCycles == 2     \* trading cycles the driving loop begins

(***************************************************************************)
(* NewsArticle, headlines and the normalised headline key                  *)
(***************************************************************************)
Repeat(ch, n) == [i \in 1..n |-> ch]

\* The headline texts the fetchers deliver, as character sequences.  h1 and
\* h2 differ in case, in leading blanks and in their 51st character; h3
\* differs from h1 in its 50th character.
HeadlineIds == {"h1", "h2", "h3"}

KeyLen == 50

HeadlineText(h) ==
    CASE h = "h1" -> Repeat("f", 50) \o <<"x">>
      [] h = "h2" -> <<" ", " ">> \o Repeat("F", 50) \o <<"y", " ">>
      [] h = "h3" -> Repeat("f", 49) \o <<"z", "x">>

\* str.lower() on the characters used
lower_char(ch) == CASE ch = "F" -> "f" [] OTHER -> ch

lower(s) == [i \in 1..Len(s) |-> lower_char(s[i])]

\* str.strip(): drop leading and trailing blanks
RECURSIVE lstrip(_)
lstrip(s) == IF s # <<>> /\ Head(s) = " " THEN lstrip(Tail(s)) ELSE s

RECURSIVE rstrip(_)
rstrip(s) ==
    IF s # <<>> /\ s[Len(s)] = " " THEN rstrip(SubSeq(s, 1, Len(s) - 1)) ELSE s

strip(s) == rstrip(lstrip(s))

\* s[:n]
prefix(s, n) == SubSeq(s, 1, IF Len(s) < n THEN Len(s) ELSE n)

\* article.headline.lower().strip()[:50], for every headline delivered
NormalizedKeys == [h \in HeadlineIds |-> prefix(strip(lower(HeadlineText(h))), KeyLen)]

normalized(h) == NormalizedKeys[h]

Fetchers == {"finnhub", "alpha_vantage", "newsapi", "rss"}

\* The articles a client can build from its provider's payload: only Alpha
\* Vantage fills sentiment_score (here one score per headline), only NewsAPI
\* parses an offset ("+00:00") into published_at and so yields aware
\* datetimes (naive datetime.now() when the provider's time does not parse).
NoScore == <<>>

ScoreOf(h) == IF h = "h2" THEN <<-40>> ELSE <<60>>

ArticlesOf(f, heads, stamps) ==
    { [headline |-> h, published_at |-> t, aware |-> a,
       sentiment_score |-> (IF f = "alpha_vantage" THEN ScoreOf(h) ELSE NoScore),
       source |-> f] :
        h \in heads, t \in stamps,
        a \in (IF f = "newsapi" THEN BOOLEAN ELSE {FALSE}) }

(***************************************************************************)
(* Results of the client tasks handed to asyncio.gather                    *)
(***************************************************************************)
Pending == [kind |-> "pending", articles |-> <<>>]
Raised == [kind |-> "exception", articles |-> <<>>]
Delivered(arts) == [kind |-> "list", articles |-> arts]

SeqsUpTo(S, n) == UNION { [1..k -> S] : k \in 0..n }

\* What one client task can end with: an exception, or a list (maybe empty)
TaskOutcomes(f, heads, stamps, n) ==
    {Raised} \cup { Delivered(arts) : arts \in SeqsUpTo(ArticlesOf(f, heads, stamps), n) }

\* tasks list of get_market_news, in the order the code appends them
market_tasks(cl, include_sentiment) ==
    SelectSeq(<<"finnhub", "alpha_vantage", "newsapi", "rss">>,
              LAMBDA f : f \in cl /\ (f = "alpha_vantage" => include_sentiment))

\* tasks list of get_symbol_news: no RSS
symbol_tasks(cl) ==
    SelectSeq(<<"finnhub", "alpha_vantage", "newsapi">>, LAMBDA f : f \in cl)

\* for result in results: if isinstance(result, list): all_articles.extend(result)
RECURSIVE collect(_, _)
collect(tasks, results) ==
    IF tasks = <<>> THEN <<>>
    ELSE (IF results[Head(tasks)].kind = "list"
          THEN results[Head(tasks)].articles ELSE <<>>)
         \o collect(Tail(tasks), results)

(***************************************************************************)
(* _deduplicate                                                            *)
(***************************************************************************)
\* the loop: keep an article when its normalised headline was not seen yet
RECURSIVE first_seen(_, _)
first_seen(articles, seen_headlines) ==
    IF articles = <<>> THEN <<>>
    ELSE LET article == Head(articles)
             key == normalized(article.headline)
         IN IF key \in seen_headlines
            THEN first_seen(Tail(articles), seen_headlines)
            ELSE <<article>> \o first_seen(Tail(articles), seen_headlines \cup {key})

\* list.sort(key=published_at, reverse=True): stable, newest first
RECURSIVE insert_desc(_, _)
insert_desc(sorted, x) ==
    IF sorted = <<>> THEN <<x>>
    ELSE IF Head(sorted).published_at >= x.published_at
         THEN <<Head(sorted)>> \o insert_desc(Tail(sorted), x)
         ELSE <<x>> \o sorted

RECURSIVE sort_desc(_)
sort_desc(s) ==
    IF s = <<>> THEN <<>>
    ELSE insert_desc(sort_desc(SubSeq(s, 1, Len(s) - 1)), s[Len(s)])

\* Ordering an aware datetime against a naive one raises TypeError; a sort of
\* a list holding both kinds has to compare such a pair.
mixed_zones(s) == \E i, j \in 1..Len(s) : s[i].aware /\ ~s[j].aware

dedup_keep_all(articles) ==
    [raised |-> mixed_zones(articles), value |-> sort_desc(articles)]

deduplicate(articles) ==
    LET unique == first_seen(articles, {})
    IN [raised |-> mixed_zones(unique), value |-> sort_desc(unique)]

(***************************************************************************)
(* _build_market_news                                                      *)
(***************************************************************************)
RECURSIVE sum_scores(_)
sum_scores(scores) ==
    IF scores = <<>> THEN 0 ELSE Head(scores)[1] + sum_scores(Tail(scores))

\* overall_sentiment as the fraction sum/len, 0.0 (0/1) without any score
build_market_news(articles) ==
    LET sentiment_scores ==
            SelectSeq([i \in 1..Len(articles) |-> articles[i].sentiment_score],
                      LAMBDA s : s # NoScore)
    IN [articles |-> articles,
        overall_sentiment |->
            IF sentiment_scores # <<>>
            THEN [num |-> sum_scores(sentiment_scores), den |-> Len(sentiment_scores)]
            ELSE [num |-> 0, den |-> 1]]

NoNews == build_market_news(<<>>)

(***************************************************************************)
(* The cache slot                                                          *)
(***************************************************************************)
cache_key == "market_news"

cache_ttl == 5

EmptyCache == [k \in {} |-> <<0, <<>>>>]

CacheEntry(cached_time, cached_data) == [k \in {cache_key} |-> <<cached_time, cached_data>>]

\* a slot that serves only a list with articles in it
cache_fresh_nonempty(c, use_cache, t) ==
    /\ use_cache
    /\ cache_key \in DOMAIN c
    /\ t - c[cache_key][1] < cache_ttl
    /\ c[cache_key][2] # <<>>

\* use_cache and cache_key in self._cache and now - cached_time < self._cache_ttl
cache_fresh(c, use_cache, t) ==
    /\ use_cache
    /\ cache_key \in DOMAIN c
    /\ t - c[cache_key][1] < cache_ttl

\* the slot after a pass of operation op ended with the list unique
cache_write_any(c, op, t, unique) == CacheEntry(t, unique)

cache_after_pass(c, op, t, unique) ==
    IF op = "market" THEN CacheEntry(t, unique) ELSE c

(***************************************************************************)
(* The coroutines.  asyncio runs each one without interruption between its *)
(* awaits; the only await of both operations is the gather.                *)
(***************************************************************************)
Callers == {"c1", "c2"}

IdleCall ==
    [pc |-> "idle", op |-> "market", use_cache |-> TRUE, tasks |-> <<>>,
     results |-> [f \in {} |-> Pending], hit |-> FALSE, ret |-> NoNews]

Range(s) == { s[i] : i \in 1..Len(s) }

\* get_market_news up to its await: serve the slot, or launch the client tasks
GetMarketNews(c, use_cache, include_sentiment) ==
    /\ calls[c].pc # "fetching"
    /\ IF cache_fresh(cache, use_cache, now)
       THEN /\ calls' = [calls EXCEPT ![c] =
                    [pc |-> "returned", op |-> "market", use_cache |-> use_cache,
                     tasks |-> <<>>, results |-> [f \in {} |-> Pending], hit |-> TRUE,
                     ret |-> build_market_news(cache[cache_key][2])]]
            /\ served' = served \cup {cache[cache_key][2]}
       ELSE /\ calls' = [calls EXCEPT ![c] =
                    [pc |-> "fetching", op |-> "market", use_cache |-> use_cache,
                     tasks |-> market_tasks(clients, include_sentiment),
                     results |-> [f \in Range(market_tasks(clients, include_sentiment))
                                    |-> Pending],
                     hit |-> FALSE, ret |-> NoNews]]
            /\ served' = served
    /\ UNCHANGED <<clients, cache, now, analyzerVars, riskVars, botVars>>

\* get_symbol_news up to its await: never reads the slot
GetSymbolNews(c) ==
    /\ calls[c].pc # "fetching"
    /\ calls' = [calls EXCEPT ![c] =
            [pc |-> "fetching", op |-> "symbol", use_cache |-> FALSE,
             tasks |-> symbol_tasks(clients),
             results |-> [f \in Range(symbol_tasks(clients)) |-> Pending],
             hit |-> FALSE, ret |-> NoNews]]
    /\ UNCHANGED <<clients, cache, now, served, analyzerVars, riskVars, botVars>>

\* a client task of the pass of caller c that gather still awaits
TaskPending(c, f) ==
    /\ calls[c].pc = "fetching"
    /\ f \in DOMAIN calls[c].results
    /\ calls[c].results[f] = Pending

\* one client task of a pass ends, with an exception or a list
TaskDone(c, f, outcome) ==
    /\ TaskPending(c, f)
    /\ calls' = [calls EXCEPT ![c].results[f] = outcome]
    /\ UNCHANGED <<clients, cache, now, served, analyzerVars, riskVars, botVars>>

\* the outcome of the code after the gather: the loop over results, then
\* _deduplicate (whose sort may raise)
pass_strict(tasks, results) ==
    IF \E f \in Range(tasks) : results[f].kind = "exception"
    THEN [raised |-> TRUE, value |-> <<>>]
    ELSE deduplicate(collect(tasks, results))

pass_outcome(tasks, results) == deduplicate(collect(tasks, results))

\* gather returns once every task has ended; the rest of the operation runs
\* without an await: collect, deduplicate, write the slot, build the result
Gather(c) ==
    LET call == calls[c]
        out == pass_outcome(call.tasks, call.results)
    IN /\ call.pc = "fetching"
       /\ \A f \in DOMAIN call.results : call.results[f] # Pending
       /\ IF out.raised
          THEN /\ calls' = [calls EXCEPT ![c].pc = "raised"]
               /\ UNCHANGED <<cache, served>>
          ELSE /\ calls' = [calls EXCEPT ![c].pc = "returned",
                                         ![c].ret = build_market_news(out.value)]
               /\ cache' = cache_after_pass(cache, call.op, now, out.value)
               /\ served' = IF cache' = cache THEN served ELSE {}
       /\ UNCHANGED <<clients, now, analyzerVars, riskVars, botVars>>

\* time passes
Tick ==
    /\ now < MaxTime
    /\ now' = now + 1
    /\ UNCHANGED <<clients, cache, calls, served, analyzerVars, riskVars, botVars>>

(***************************************************************************)
(* MarketAnalyzer: the oracle reply                                        *)
(*                                                                         *)
(* A reply text is a sequence of tokens:                                   *)
(*   FENCE_JSON  the characters ```json                                    *)
(*   FENCE       the characters ```                                        *)
(*   TEXT        text without fences that is no JSON value: prose, or a    *)
(*               JSON object cut off before its end                        *)
(*   JSON        one complete JSON value, the reply's payload              *)
(* JSON values are tagged tuples.                                          *)
(***************************************************************************)
Tokens == {"FENCE_JSON", "FENCE", "TEXT", "JSON"}

JAbsent == <<"absent">>
JNull == <<"null">>
JStr(s) == <<"str", s>>
JNum(n) == <<"num", n>>
JList(items) == <<"list", items>>
JObj(name) == <<"obj", name>>

JsonObject(re, co, st, ps, se) ==
    [kind |-> "object", regime |-> re, confidence |-> co, recommended_strategy |-> st,
     position_size_modifier |-> ps, sector_recommendations |-> se]

\* a complete reply object, as the prompt asks for it
GoodObject ==
    JsonObject(JStr("TRENDING_BULLISH"), JNum(80), JStr("momentum"), JNum(100),
               JList(<<JObj("technology")>>))

\* JSON values that are no object: an array, null
NonObject(k) == [GoodObject EXCEPT !.kind = k]

Payloads ==
    { JsonObject(re, co, st, ps, JAbsent) :
        re \in {JAbsent, JStr("CRISIS"), JStr("trending_bullish"), JStr("SIDEWAYS"), JNum(5)},
        co \in {JAbsent, JNum(80), JNum(150), JStr("high")},
        st \in {JAbsent, JStr("momentum"), JStr("scalping")},
        ps \in {JAbsent, JNum(100), JNum(-50)} }
    \cup { [GoodObject EXCEPT !.sector_recommendations = se] :
             se \in {JList(<<JObj("technology")>>), JList(<<JStr("technology")>>), JNull} }
    \cup { NonObject("array"), NonObject("null") }

Unavailable == [kind |-> "unavailable", text |-> <<>>, payload |-> GoodObject]
NoContent == [kind |-> "no_content", text |-> <<>>, payload |-> GoodObject]
Reply(text, payload) == [kind |-> "reply", text |-> text, payload |-> payload]

\* "```json" in response; "```" in response (```json contains ```)
has_json_fence(text) == \E i \in 1..Len(text) : text[i] = "FENCE_JSON"
has_fence(text) == \E i \in 1..Len(text) : text[i] \in {"FENCE_JSON", "FENCE"}

\* position of the first token of s in S, Len(s) + 1 without one
RECURSIVE find(_, _, _)
find(s, S, i) == IF i > Len(s) \/ s[i] \in S THEN i ELSE find(s, S, i + 1)

\* response.split(sep)[1], sep being the first token of S, then .split("```")[0]
between(text, S) ==
    LET rest == SubSeq(text, find(text, S, 1) + 1, Len(text))
    IN SubSeq(rest, 1, find(rest, {"FENCE_JSON", "FENCE"}, 1) - 1)

\* the text handed to json.loads
extract_json(text) ==
    IF has_json_fence(text) THEN between(text, {"FENCE_JSON"})
    ELSE IF has_fence(text) THEN between(text, {"FENCE"})
    ELSE text

\* json.loads(response.strip()) succeeds on exactly one JSON value
json_loads_ok(segment) == segment = <<"JSON">>

MarketRegime ==
    {"TRENDING_BULLISH", "TRENDING_BEARISH", "RANGE_BOUND", "HIGH_UNCERTAINTY", "CRISIS"}

\* str.upper() on the regime strings used
upper(str) ==
    CASE str = "trending_bullish" -> "TRENDING_BULLISH"
      [] str = "crisis" -> "CRISIS"
      [] OTHER -> str

\* data[key]: no default for a key that is absent
get_required(value, default) == value

\* dict.get(key, default)
get(value, default) == IF value = JAbsent THEN default ELSE value

\* float(x) raises on None and on a string that is no number
float_ok(x) == x[1] = "num"

RegimeAnalysis(re, co, st, ps, se, rl, kr, nc) ==
    [regime |-> re, confidence |-> co, recommended_strategy |-> st,
     position_size_modifier |-> ps, sector_recommendations |-> se,
     risk_level |-> rl, key_risks |-> kr, news_count |-> nc]

\* no RegimeAnalysis: before the call, and when it raised
NoRegimeAnalysis == RegimeAnalysis("none", 0, "none", 0, <<>>, "none", <<>>, 0)

\* the except branch: the fixed conservative RegimeAnalysis
fallback(news) ==
    RegimeAnalysis("HIGH_UNCERTAINTY", 30, "cash", 25, <<>>, "high",
                   <<"Analyse konnte nicht durchgefuehrt werden">>, Len(news.articles))

\* whether the try block of _parse_response raises on this reply
parse_fails(response) ==
    LET data == response.payload
        regime_str == get(data.regime, JStr("RANGE_BOUND"))
        sector == get(data.sector_recommendations, JList(<<>>))
    IN \/ response.kind = "no_content"
       \/ ~json_loads_ok(extract_json(response.text))
       \/ data.kind # "object"
       \/ regime_str[1] # "str"
       \/ upper(regime_str[2]) \notin MarketRegime
       \/ sector[1] # "list"
       \/ \E i \in 1..Len(sector[2]) : sector[2][i][1] # "obj"
       \/ ~float_ok(get(data.confidence, JNum(50)))
       \/ ~float_ok(get(data.position_size_modifier, JNum(50)))

\* the RegimeAnalysis the try block builds when nothing raises (the payloads
\* carry no risk_level and no key_risks, which so take their defaults)
parsed(response, news) ==
    LET data == response.payload
        sector == get(data.sector_recommendations, JList(<<>>))[2]
    IN RegimeAnalysis(
           upper(get(data.regime, JStr("RANGE_BOUND"))[2]),
           get(data.confidence, JNum(50))[2],
           get(data.recommended_strategy, JStr("mean_reversion"))[2],
           get(data.position_size_modifier, JNum(50))[2],
           [i \in 1..Len(sector) |-> sector[i][2]],
           "medium", <<>>, Len(news.articles))

parse_response_uncaught(response, news) ==
    IF parse_fails(response)
    THEN [raised |-> TRUE, value |-> NoRegimeAnalysis]
    ELSE [raised |-> FALSE, value |-> parsed(response, news)]

\* _parse_response: every exception of the try block ends in the fallback
parse_response(response, news) ==
    IF parse_fails(response)
    THEN [raised |-> FALSE, value |-> fallback(news)]
    ELSE [raised |-> FALSE, value |-> parsed(response, news)]

\* MarketNews.get_recent compares every published_at with a naive cutoff
get_recent_raises(news) == \E i \in 1..Len(news.articles) : news.articles[i].aware

NoAnalysis == [pc |-> "idle", outcome |-> "none", stage |-> "none", value |-> NoRegimeAnalysis]

\* analyze_market: format the news, call the oracle, parse its reply.  An
\* exception of _format_news_for_analysis or of the oracle call leaves the
\* method; _call_anthropic and _call_openai log and re-raise.
AnalyzeMarket ==
    /\ analysis.pc = "idle"
    /\ analysis' =
         IF get_recent_raises(market_news)
         THEN [pc |-> "done", outcome |-> "raised", stage |-> "format",
               value |-> NoRegimeAnalysis]
         ELSE IF oracle.kind = "unavailable"
         THEN [pc |-> "done", outcome |-> "raised", stage |-> "oracle",
               value |-> NoRegimeAnalysis]
         ELSE LET r == parse_response(oracle, market_news)
              IN [pc |-> "done", outcome |-> IF r.raised THEN "raised" ELSE "returned",
                  stage |-> "parse", value |-> r.value]
    /\ UNCHANGED <<market_news, oracle, newsVars, riskVars, botVars>>

(***************************************************************************)
(* risk_manager.py: CostCalculator and RiskManager                         *)
(*                                                                         *)
(* Units.  total_capital is in whole currency units, entry_price and       *)
(* position_value in cents, the percentages (limits, stop-loss and         *)
(* take-profit, volatility, current_portfolio_risk) in basis points        *)
(* (0.05 is 500), signal_strength in hundredths.  risk_amount, the stop    *)
(* and target prices, commissions and spreads are in millionths of the     *)
(* currency unit, so that every product of the code is a whole number.     *)
(* breakeven_move and expected_return are in hundredths of a percent; the  *)
(* first is kept as the fraction total_roundtrip / order_value.            *)
(* The arithmetic is exact; the code's binary floating point agrees with   *)
(* it on the inputs used here up to its last digits.                       *)
(***************************************************************************)
Micro == 10000      \* millionths of the currency unit in one cent
BasisPoints == 10000

TradeCosts(commission, spread_estimate, total_roundtrip, breakeven_move) ==
    [commission |-> commission, spread_estimate |-> spread_estimate,
     total_roundtrip |-> total_roundtrip, breakeven_move |-> breakeven_move]

max(a, b) == IF a >= b THEN a ELSE b
min(a, b) == IF a <= b THEN a ELSE b

\* the class constants of CostCalculator
XETRA_MIN == 4 * 100 * Micro
XETRA_MAX == 99 * 100 * Micro
US_MIN == 2 * 100 * Micro
UK_MIN == 6 * 100 * Micro
\* order_value * 0.001, order_value in cents
XETRA_RATE(order_value) == order_value * 10
UK_RATE(order_value) == order_value * 10
\* quantity * 0.01
US_PER_SHARE(quantity) == quantity * Micro

\* CostCalculator.calculate_stock_cost
calculate_stock_cost(exchange, quantity, price) ==
    LET order_value == quantity * price
        commission ==
            IF exchange \in {"XETRA", "IBIS"}
            THEN max(XETRA_MIN, min(XETRA_RATE(order_value), XETRA_MAX))
            ELSE IF exchange \in {"NYSE", "NASDAQ", "ARCA", "SMART"}
            THEN max(US_MIN, US_PER_SHARE(quantity))
            ELSE IF exchange \in {"LSE", "LSEETF"}
            THEN max(UK_MIN, UK_RATE(order_value))
            ELSE max(4 * 100 * Micro, order_value * 10)
        spread_estimate ==
            IF order_value > 100000 * 100 THEN order_value * 2
            ELSE IF order_value > 10000 * 100 THEN order_value * 5
            ELSE order_value * 10
        total_roundtrip == (commission * 2) + (spread_estimate * 2)
        breakeven_move ==
            IF order_value > 0
            THEN [inf |-> FALSE, num |-> total_roundtrip, den |-> order_value]
            ELSE [inf |-> TRUE, num |-> 1, den |-> 1]
    IN TradeCosts(commission, spread_estimate, total_roundtrip, breakeven_move)

\* a gate that lets the expected return equal to the product through
is_trade_viable_or_equal(costs, expected_return_pct, min_reward_ratio) ==
    /\ ~costs.breakeven_move.inf
    /\ expected_return_pct * costs.breakeven_move.den
         >= costs.breakeven_move.num * min_reward_ratio

\* CostCalculator.is_trade_viable:
\*   expected_return_pct > costs.breakeven_move * min_reward_ratio
is_trade_viable(costs, expected_return_pct, min_reward_ratio) ==
    /\ ~costs.breakeven_move.inf
    /\ expected_return_pct * costs.breakeven_move.den
         > costs.breakeven_move.num * min_reward_ratio

PositionSizeResult(shares, position_value, risk_amount, stop_loss_price, take_profit_price, viable, reason) ==
    [shares |-> shares, position_value |-> position_value,
     risk_amount |-> risk_amount, stop_loss_price |-> stop_loss_price,
     take_profit_price |-> take_profit_price, viable |-> viable, reason |-> reason]

\* RiskManager.__init__ with its default limits
RiskManager(total_capital) ==
    [total_capital |-> total_capital, max_position_pct |-> 500,
     max_risk_per_trade |-> 100, max_portfolio_risk |-> 1000]

\* volatility=None
NoVolatility == <<>>

\* "volatility * k if volatility else default": None and 0.0 are both falsy
\* (the volatilities used are even, so that 1.5 times one is whole)
if_volatility(volatility, times2, default) ==
    IF volatility = NoVolatility \/ volatility = <<0>>
    THEN default
    ELSE (volatility[1] * times2) \div 2

\* step 2 with the bot's exit thresholds for every strategy but momentum
exit_percentages(strategy, volatility) ==
    IF strategy = "momentum"
    THEN [stop_loss_pct |-> 500, take_profit_pct |-> 1500]
    ELSE [stop_loss_pct |-> 300, take_profit_pct |-> 600]

\* step 2: stop-loss and take-profit percentages of the strategy
stop_percentages(strategy, volatility) ==
    IF strategy = "momentum"
    THEN LET stop_loss_pct == if_volatility(volatility, 3, 500)
         IN [stop_loss_pct |-> stop_loss_pct, take_profit_pct |-> stop_loss_pct * 3]
    ELSE IF strategy = "mean_reversion"
    THEN LET stop_loss_pct == if_volatility(volatility, 2, 300)
         IN [stop_loss_pct |-> stop_loss_pct, take_profit_pct |-> stop_loss_pct * 2]
    ELSE IF strategy = "hedge"
    THEN [stop_loss_pct |-> 700, take_profit_pct |-> 1000]
    ELSE [stop_loss_pct |-> 400, take_profit_pct |-> 800]

\* int(num / den): the quotient cut towards zero
int(num, den) ==
    LET q == (IF num < 0 THEN -num ELSE num) \div (IF den < 0 THEN -den ELSE den)
    IN IF (num < 0) = (den < 0) THEN q ELSE -q

\* round(price, 2): to the nearest cent, a tie to the even cent
round(price) ==
    LET q == price \div Micro
        r == price % Micro
    IN IF 2 * r > Micro \/ (2 * r = Micro /\ q % 2 = 1)
       THEN (q + 1) * Micro ELSE q * Micro

\* step 1 with the limit itself still accepted
risk_limit_exceeded(current_portfolio_risk, max_portfolio_risk) ==
    current_portfolio_risk > max_portfolio_risk

\* step 1: current_portfolio_risk >= self.max_portfolio_risk
risk_limit_reached(current_portfolio_risk, max_portfolio_risk) ==
    current_portfolio_risk >= max_portfolio_risk

\* step 5 letting a position of no share through
below_no_share(adjusted_shares) == adjusted_shares < 0

\* step 5: adjusted_shares < 1
below_one_share(adjusted_shares) == adjusted_shares < 1

\* step 5 taking the larger of the two share counts
adjust_larger(shares_by_risk, shares_by_capital, signal_strength) ==
    int(max(shares_by_risk, shares_by_capital) * signal_strength, 100)

\* step 5: base_shares = min(...), adjusted_shares = int(base_shares * signal)
adjust_shares(shares_by_risk, shares_by_capital, signal_strength) ==
    int(min(shares_by_risk, shares_by_capital) * signal_strength, 100)

\* float('nan') as an entry price: a number that no price of the model takes.
\* Every comparison with NaN is False in the code; the model asks isnan before
\* it compares.
NaN == 0 - 1000000000

isnan(x) == x = NaN

\* the call left by "ValueError: cannot convert float NaN to integer", kept
\* in the shape of a result
ValueError == PositionSizeResult(0, 0, 0, 0, 0, FALSE, "ValueError")

Args(entry_price, strategy, signal_strength, exchange, current_portfolio_risk, volatility) ==
    [entry_price |-> entry_price, strategy |-> strategy,
     signal_strength |-> signal_strength, exchange |-> exchange,
     current_portfolio_risk |-> current_portfolio_risk, volatility |-> volatility]

\* RiskManager.calculate_position_size
calculate_position_size(self, a) ==
    IF risk_limit_reached(a.current_portfolio_risk, self.max_portfolio_risk)
    THEN PositionSizeResult(0, 0, 0, 0, 0, FALSE, "Portfolio-Risiko-Limit erreicht")
    ELSE
    LET pct == stop_percentages(a.strategy, a.volatility)
        stop_loss_price == a.entry_price * (BasisPoints - pct.stop_loss_pct)
        take_profit_price == a.entry_price * (BasisPoints + pct.take_profit_pct)
        risk_per_share == a.entry_price * Micro - stop_loss_price
    IN
    \* with entry_price NaN, risk_per_share is NaN: "risk_per_share <= 0" is
    \* False and int(max_risk_amount / risk_per_share) raises
    IF isnan(a.entry_price) THEN ValueError
    ELSE
    IF risk_per_share <= 0
    THEN PositionSizeResult(0, 0, 0, stop_loss_price, take_profit_price, FALSE,
                            "Ungueltiger Stop-Loss")
    ELSE
    LET max_risk_amount == self.total_capital * self.max_risk_per_trade * 100
        shares_by_risk == int(max_risk_amount, risk_per_share)
        \* max_position_value / entry_price, both brought to 1/100 cent
        shares_by_capital == int(self.total_capital * self.max_position_pct,
                                 a.entry_price * 100)
        adjusted_shares == adjust_shares(shares_by_risk, shares_by_capital,
                                         a.signal_strength)
    IN
    IF below_one_share(adjusted_shares)
    THEN PositionSizeResult(0, 0, 0, stop_loss_price, take_profit_price, FALSE,
                            "Position zu klein nach Anpassung")
    ELSE
    LET position_value == adjusted_shares * a.entry_price
        risk_amount == adjusted_shares * risk_per_share
        costs == calculate_stock_cost(a.exchange, adjusted_shares, a.entry_price)
        expected_return == pct.take_profit_pct
    IN
    IF ~is_trade_viable(costs, expected_return, 2)
    THEN PositionSizeResult(0, 0, 0, stop_loss_price, take_profit_price, FALSE,
                            "Gebuehren zu hoch")
    ELSE PositionSizeResult(adjusted_shares, position_value, risk_amount,
                            round(stop_loss_price), round(take_profit_price),
                            TRUE, "OK")

NoResult == PositionSizeResult(0, 0, 0, 0, 0, FALSE, "none")

\* a sizing that books the position against the capital
self_after_booking(self, a) ==
    [self EXCEPT !.total_capital =
        @ - calculate_position_size(self, a).position_value \div 100]

\* what calculate_position_size leaves of the RiskManager: it assigns to no
\* attribute
self_after_sizing(self, a) == self

\* RiskManager.calculate_position_size called with the arguments at hand
CalculatePositionSize ==
    /\ sizing.n < MaxCalls
    /\ sizing' = [sizing EXCEPT
                    !.n = @ + 1,
                    !.capital = rm.total_capital,
                    !.result = calculate_position_size(rm, sizing.args),
                    !.prev_capital = sizing.capital,
                    !.prev_result = sizing.result]
    /\ rm' = self_after_sizing(rm, sizing.args)
    /\ UNCHANGED <<newsVars, analyzerVars, botVars>>

\* RiskManager.update_capital
UpdateCapital(new_capital) ==
    /\ rm' = [rm EXCEPT !.total_capital = new_capital]
    /\ UNCHANGED <<sizing, newsVars, analyzerVars, botVars>>

NoArgs == Args(0, "none", 0, "none", 0, NoVolatility)

NoSizing ==
    [args |-> NoArgs, n |-> 0, capital |-> 0, result |-> NoResult,
     prev_capital |-> 0, prev_result |-> NoResult]

(***************************************************************************)
(* The risk manager's variables while it is not used                       *)
(***************************************************************************)
RiskIdle ==
    /\ rm = RiskManager(50000)
    /\ sizing = NoSizing

(***************************************************************************)
(* bot.py: AITradingBot                                                    *)
(*                                                                         *)
(* start() and the _trading_cycle it awaits run as one coroutine; a step   *)
(* of the model runs it from one await to the next.  The awaits of a pass  *)
(* are, in cycle.pc: news (get_market_news), vix (the sleep of             *)
(* _get_vix_level), analyze (analyze_market), polling (the sleep of        *)
(* _close_position), pricing (the sleep of _seek_new_opportunities).  The  *)
(* awaits of the loop are, in bot.pc: in_cycle (the await of the pass),    *)
(* off_hours, interval and cooldown (its three sleeps), closing (the       *)
(* await in shutdown).                                                     *)
(*                                                                         *)
(* Units.  A position's averageCost and marketPrice are in whole currency  *)
(* units, available cash too; ticker.last is in cents as entry_price is.   *)
(* The unrealized P&L fraction is kept as the pair num / den, the exit     *)
(* thresholds are in basis points.                                         *)
(***************************************************************************)
Position(symbol, position, averageCost, marketPrice) ==
    [symbol |-> symbol, position |-> position, averageCost |-> averageCost,
     marketPrice |-> marketPrice]

AccountValue(tag, currency, value) == [tag |-> tag, currency |-> currency, value |-> value]

\* BotConfig: capital, min_trade_capital
config == [capital |-> 50000, min_trade_capital |-> 500]

watchlist == <<"AAPL", "MSFT", "GOOGL">>

abs(x) == IF x < 0 THEN -x ELSE x

\* _manage_existing_positions: (current_price - avg_cost) / avg_cost if
\* avg_cost > 0 else 0
unrealized_pnl_pct(position) ==
    IF position.averageCost > 0
    THEN [num |-> position.marketPrice - position.averageCost,
          den |-> position.averageCost]
    ELSE [num |-> 0, den |-> 1]

\* the thresholds of _check_exit_conditions: momentum, and everything else
exit_thresholds(strategy) ==
    IF strategy = "momentum"
    THEN [stop_loss |-> -500, take_profit |-> 1500]
    ELSE [stop_loss |-> -300, take_profit |-> 600]

ExitCheck(symbol, pnl, should_exit, reason, stop_loss, take_profit) ==
    [symbol |-> symbol, pnl |-> pnl, should_exit |-> should_exit, reason |-> reason,
     stop_loss |-> stop_loss, take_profit |-> take_profit]

\* a CRISIS exit that still wants a loss or a gain at its threshold
check_crisis_after_thresholds(current_regime, position, pnl) ==
    LET t == exit_thresholds(current_regime.recommended_strategy)
        at_stop == pnl.num * BasisPoints <= t.stop_loss * pnl.den
        at_target == pnl.num * BasisPoints >= t.take_profit * pnl.den
    IN ExitCheck(position.symbol, pnl, at_stop \/ at_target,
                 IF at_stop THEN "Stop-Loss erreicht"
                 ELSE IF at_target THEN "Take-Profit erreicht" ELSE "",
                 t.stop_loss, t.take_profit)

\* _check_exit_conditions; the thresholds are locals of the method, 0 where
\* it returns before it sets them
check_exit_conditions(current_regime, position, pnl) ==
    IF current_regime.regime = "CRISIS"
    THEN ExitCheck(position.symbol, pnl, TRUE, "Marktregime: CRISIS", 0, 0)
    ELSE LET t == exit_thresholds(current_regime.recommended_strategy)
         IN IF pnl.num * BasisPoints <= t.stop_loss * pnl.den
            THEN ExitCheck(position.symbol, pnl, TRUE, "Stop-Loss erreicht",
                           t.stop_loss, t.take_profit)
            ELSE IF pnl.num * BasisPoints >= t.take_profit * pnl.den
            THEN ExitCheck(position.symbol, pnl, TRUE, "Take-Profit erreicht",
                           t.stop_loss, t.take_profit)
            ELSE ExitCheck(position.symbol, pnl, FALSE, "", t.stop_loss, t.take_profit)

\* _close_position: the MarketOrder it places
close_order(position) ==
    [symbol |-> position.symbol,
     action |-> IF position.position > 0 THEN "SELL" ELSE "BUY",
     quantity |-> abs(position.position)]

\* _get_available_cash
RECURSIVE get_available_cash(_)
get_available_cash(account_values) ==
    IF account_values = <<>> THEN 0
    ELSE IF Head(account_values).tag = "AvailableFunds"
            /\ Head(account_values).currency = "EUR"
    THEN Head(account_values).value
    ELSE get_available_cash(Tail(account_values))

\* _calculate_portfolio_risk, in basis points: every position risks 5% of
\* its value (the positions used make the quotient whole)
RECURSIVE total_risk(_)
total_risk(portfolio) ==
    IF portfolio = <<>> THEN 0
    ELSE abs(Head(portfolio).position * Head(portfolio).marketPrice) * 500
         + total_risk(Tail(portfolio))

calculate_portfolio_risk(portfolio) ==
    IF portfolio = <<>> THEN 0 ELSE total_risk(portfolio) \div config.capital

\* a gate that looks at the regime alone
should_seek_unless_crisis(current_regime, available_cash) ==
    current_regime.regime # "CRISIS"

\* _should_seek_opportunities
should_seek_opportunities(current_regime, available_cash) ==
    IF current_regime.regime = "CRISIS" THEN FALSE
    ELSE IF available_cash < config.min_trade_capital THEN FALSE
    ELSE IF current_regime.position_size_modifier < 25 THEN FALSE
    ELSE TRUE

\* the symbols still held once the cycle's close orders are counted out
held_after_closing(portfolio) ==
    { portfolio[k].symbol : k \in 1..Len(portfolio) }
      \ { cycle.orders[k].symbol : k \in 1..Len(cycle.orders) }

\* held_symbols = [p.contract.symbol for p in portfolio]
held_symbols(portfolio) == { portfolio[k].symbol : k \in 1..Len(portfolio) }

\* the locals of one _trading_cycle and the record of what it did
NewCycle(n) ==
    [n |-> n, pc |-> "news", outcome |-> "running", ended_in |-> "none",
     market_news |-> NoNews, portfolio |-> <<>>, available_cash |-> 0,
     i |-> 0, checks |-> <<>>, orders |-> <<>>,
     gate |-> "none", j |-> 0, priced |-> <<>>, sizings |-> <<>>, candidates |-> <<>>]

NoCycle == [NewCycle(0) EXCEPT !.pc = "none", !.outcome = "none"]

\* the pass leaves _trading_cycle: by return, or by an exception it does not
\* catch
returns(c, stage) == [c EXCEPT !.pc = "return", !.ended_in = stage]
raises(c, stage) == [c EXCEPT !.pc = "raise", !.ended_in = stage]

\* _manage_existing_positions from position i on, up to the await of the
\* first _close_position: the exit check of every position on the way, and
\* the order of the first that is to be closed.  placeOrder raises
\* ConnectionError on a disconnected broker.
RECURSIVE manage_existing_positions(_, _, _, _)
manage_existing_positions(c, current_regime, connected, i) ==
    IF i > Len(c.portfolio)
    THEN [c EXCEPT !.i = i, !.pc = "gate"]
    ELSE LET position == c.portfolio[i]
             check == check_exit_conditions(current_regime, position,
                                            unrealized_pnl_pct(position))
             checked == [c EXCEPT !.i = i, !.checks = Append(@, check)]
         IN IF check.should_exit
            THEN IF connected
                 THEN [checked EXCEPT !.orders = Append(@, close_order(position)),
                                      !.pc = "polling"]
                 ELSE raises(checked, "manage")
            ELSE manage_existing_positions(checked, current_regime, connected, i + 1)

\* _seek_new_opportunities from watchlist entry j on, up to its await: held
\* symbols are passed over, market data is requested for the first other one
\* (reqMktData raises ConnectionError on a disconnected broker)
RECURSIVE seek_new_opportunities(_, _, _)
seek_new_opportunities(c, connected, j) ==
    IF j > Len(watchlist) THEN returns([c EXCEPT !.j = j], "end")
    ELSE IF watchlist[j] \in held_symbols(c.portfolio)
    THEN seek_new_opportunities(c, connected, j + 1)
    ELSE IF connected
    THEN [c EXCEPT !.j = j, !.priced = Append(@, watchlist[j]), !.pc = "pricing"]
    ELSE raises([c EXCEPT !.j = j], "seek")

\* step 6 of _trading_cycle, once the positions are managed
after_positions(c, current_regime, connected) ==
    IF c.pc # "gate" THEN c
    ELSE IF should_seek_opportunities(current_regime, c.available_cash)
    THEN seek_new_opportunities([c EXCEPT !.gate = "open"], connected, 1)
    ELSE returns([c EXCEPT !.gate = "closed"], "end")

\* steps 4 to 6 of _trading_cycle up to their first await
after_analysis(c, current_regime, connected, portfolio, account_values) ==
    LET snapshot == [c EXCEPT !.portfolio = portfolio,
                              !.available_cash = get_available_cash(account_values)]
    IN after_positions(
           IF portfolio # <<>>
           THEN manage_existing_positions(snapshot, current_regime, connected, 1)
           ELSE [snapshot EXCEPT !.pc = "gate"],
           current_regime, connected)

\* the pass as it stands after a step: ended, or at its next await
settle(c) ==
    IF c.pc = "return" THEN [c EXCEPT !.pc = "done", !.outcome = "returned"]
    ELSE IF c.pc = "raise" THEN [c EXCEPT !.pc = "done", !.outcome = "raised"]
    ELSE c

\* the loop starting every pass as a task of its own and going on
spawn_cycle == "interval"

\* start() awaits the pass it begins: await self._trading_cycle()
await_cycle == "in_cycle"

\* a loop without its "except Exception": the exception of a pass leaves
\* start(), and main's finally calls shutdown()
resume_uncaught(b, c) ==
    IF c.pc \in {"return", "raise"}
    THEN [b EXCEPT !.in_progress = @ \ {c.n},
                   !.pc = IF @ # "in_cycle" THEN @
                          ELSE IF c.pc = "return" THEN "interval" ELSE "closing"]
    ELSE b

\* start() once the pass it awaits has ended: the sleep of cycle_interval
\* after a return, the except branch and its sleep after an exception
resume(b, c) ==
    IF c.pc \in {"return", "raise"}
    THEN [b EXCEPT !.in_progress = @ \ {c.n},
                   !.pc = IF @ # "in_cycle" THEN @
                          ELSE IF c.pc = "return" THEN "interval" ELSE "cooldown"]
    ELSE b

\* start(): connectAsync, then is_running = True; a failed connect leaves
\* start() and main's finally calls shutdown()
Start(connects) ==
    /\ bot.pc = "created"
    /\ bot' = IF connects THEN [bot EXCEPT !.is_running = TRUE, !.pc = "loop"]
              ELSE [bot EXCEPT !.is_running = FALSE, !.pc = "closing"]
    /\ resources' = [resources EXCEPT !.ib_connected = connects]
    /\ UNCHANGED <<cycle, stop, newsVars, analyzerVars, riskVars>>

\* while self.is_running, outside the trading hours: sleep(60), continue
OffHours ==
    /\ bot.pc = "loop" /\ bot.is_running
    /\ bot' = [bot EXCEPT !.pc = "off_hours"]
    /\ UNCHANGED <<cycle, resources, stop, newsVars, analyzerVars, riskVars>>

\* while self.is_running, within the trading hours: _trading_cycle begins
\* and runs to its first await
BeginCycle ==
    /\ bot.pc = "loop" /\ bot.is_running
    /\ bot.cycle_count < MaxCycles
    /\ bot' = [bot EXCEPT !.cycle_count = @ + 1,
                          !.in_progress = @ \cup {bot.cycle_count + 1},
                          !.pc = await_cycle]
    /\ cycle' = NewCycle(bot.cycle_count + 1)
    /\ UNCHANGED <<resources, stop, newsVars, analyzerVars, riskVars>>

\* one of the three sleeps of the loop ends
WakeUp ==
    /\ bot.pc \in {"off_hours", "interval", "cooldown"}
    /\ bot' = [bot EXCEPT !.pc = "loop"]
    /\ UNCHANGED <<cycle, resources, stop, newsVars, analyzerVars, riskVars>>

\* while self.is_running fails: await self.shutdown()
LoopExit ==
    /\ bot.pc = "loop" /\ ~bot.is_running
    /\ bot' = [bot EXCEPT !.pc = "closing"]
    /\ UNCHANGED <<cycle, resources, stop, newsVars, analyzerVars, riskVars>>

\* shutdown() after its await: the sessions are closed, the broker is
\* disconnected
ShutdownCompletes ==
    /\ bot.pc = "closing"
    /\ bot' = [bot EXCEPT !.pc = "stopped"]
    /\ resources' = [ib_connected |-> FALSE, sessions_open |-> FALSE]
    /\ UNCHANGED <<cycle, stop, newsVars, analyzerVars, riskVars>>

\* step 1: get_market_news returns
NewsReturns(news) ==
    /\ cycle.outcome = "running" /\ cycle.pc = "news"
    /\ cycle' = [cycle EXCEPT !.market_news = news, !.pc = "vix"]
    /\ UNCHANGED <<bot, resources, stop, newsVars, analyzerVars, riskVars>>

\* step 1: get_market_news raises; the cycle logs and returns
NewsRaises ==
    /\ cycle.outcome = "running" /\ cycle.pc = "news"
    /\ cycle' = settle(returns(cycle, "news"))
    /\ bot' = resume(bot, returns(cycle, "news"))
    /\ UNCHANGED <<resources, stop, newsVars, analyzerVars, riskVars>>

\* step 2: _get_vix_level returns, with the quote or with its default
VixReturns ==
    /\ cycle.outcome = "running" /\ cycle.pc = "vix"
    /\ cycle' = [cycle EXCEPT !.pc = "analyze"]
    /\ UNCHANGED <<bot, resources, stop, newsVars, analyzerVars, riskVars>>

\* whether analyze_market raises: formatting the news, or the oracle call
analyze_raises(news, response) ==
    get_recent_raises(news) \/ response.kind = "unavailable"

\* step 3: analyze_market raises; the cycle logs and returns
AnalyzeRaises(response) ==
    /\ cycle.outcome = "running" /\ cycle.pc = "analyze"
    /\ analyze_raises(cycle.market_news, response)
    /\ cycle' = settle(returns(cycle, "analyze"))
    /\ bot' = resume(bot, returns(cycle, "analyze"))
    /\ UNCHANGED <<resources, stop, newsVars, analyzerVars, riskVars>>

\* step 3: analyze_market returns; steps 4 to 6 up to their first await.  A
\* disconnected broker reports no position.
AnalyzeReturns(response, portfolio, account_values) ==
    /\ cycle.outcome = "running" /\ cycle.pc = "analyze"
    /\ ~analyze_raises(cycle.market_news, response)
    /\ resources.ib_connected \/ portfolio = <<>>
    /\ LET current_regime == parse_response(response, cycle.market_news).value
           c == after_analysis(cycle, current_regime, resources.ib_connected,
                               portfolio, account_values)
       IN /\ cycle' = settle(c)
          /\ bot' = [resume(bot, c) EXCEPT !.current_regime = current_regime]
    /\ UNCHANGED <<resources, stop, newsVars, analyzerVars, riskVars>>

\* _close_position: the trade is done, whatever its status; the loop over
\* the positions goes on, then step 6
TradeDone ==
    /\ cycle.outcome = "running" /\ cycle.pc = "polling"
    /\ LET c == after_positions(
                    manage_existing_positions(cycle, bot.current_regime,
                                              resources.ib_connected, cycle.i + 1),
                    bot.current_regime, resources.ib_connected)
       IN /\ cycle' = settle(c)
          /\ bot' = resume(bot, c)
    /\ UNCHANGED <<resources, stop, newsVars, analyzerVars, riskVars>>

NoPrice == <<>>

\* _seek_new_opportunities after its sleep: without a price the symbol is
\* passed over, with one it is sized and logged as a candidate when viable;
\* then the next symbol.  ticker.last is NaN as long as no trade price has
\* come: neither None nor <= 0, so it is sized, and the sizing raises.
\* cancelMktData raises on a disconnected broker.
PriceArrives(last) ==
    /\ cycle.outcome = "running" /\ cycle.pc = "pricing"
    /\ LET symbol == watchlist[cycle.j]
           a == Args(last[1], bot.current_regime.recommended_strategy,
                     bot.current_regime.confidence, "SMART",
                     calculate_portfolio_risk(cycle.portfolio), NoVolatility)
           result == calculate_position_size(rm, a)
           sized == [cycle EXCEPT
                       !.sizings = Append(@, [symbol |-> symbol, args |-> a,
                                              result |-> result]),
                       !.candidates = IF result.viable THEN Append(@, symbol) ELSE @]
           passed == last = NoPrice \/ (~isnan(last[1]) /\ last[1] <= 0)
           c == IF ~passed /\ result = ValueError THEN raises(sized, "sizing")
                ELSE IF ~resources.ib_connected
                THEN raises(IF passed THEN cycle ELSE sized, "seek")
                ELSE seek_new_opportunities(IF passed THEN cycle ELSE sized,
                                            resources.ib_connected, cycle.j + 1)
       IN /\ cycle' = settle(c)
          /\ bot' = resume(bot, c)
    /\ UNCHANGED <<resources, stop, newsVars, analyzerVars, riskVars>>

\* the awaits at which start() is suspended while the loop runs
Suspended == bot.pc \in {"in_cycle", "off_hours", "interval", "cooldown"}

\* shutdown() called by another task while start() is suspended: is_running
\* is cleared, then the call awaits news_aggregator.close()
StopRequest ==
    /\ Suspended /\ stop = "none"
    /\ bot' = [bot EXCEPT !.is_running = FALSE]
    /\ stop' = "closing"
    /\ UNCHANGED <<cycle, resources, newsVars, analyzerVars, riskVars>>

\* that call after its await: sessions closed, broker disconnected
StopRelease ==
    /\ stop = "closing"
    /\ stop' = "done"
    /\ resources' = [ib_connected |-> FALSE, sessions_open |-> FALSE]
    /\ UNCHANGED <<bot, cycle, newsVars, analyzerVars, riskVars>>

\* an interrupt while start() is suspended: the await raises, a pass in
\* progress is left where it stands, and main's finally calls shutdown()
Interrupt ==
    /\ Suspended
    /\ bot' = [bot EXCEPT !.is_running = FALSE, !.pc = "closing", !.in_progress = {}]
    /\ cycle' = IF cycle.outcome = "running"
                THEN [cycle EXCEPT !.outcome = "aborted", !.ended_in = cycle.pc,
                                   !.pc = "done"]
                ELSE cycle
    /\ UNCHANGED <<resources, stop, newsVars, analyzerVars, riskVars>>

NoBot ==
    [is_running |-> FALSE, current_regime |-> NoRegimeAnalysis, cycle_count |-> 0,
     pc |-> "created", in_progress |-> {}]

(***************************************************************************)
(* The bot's variables while it is not used                                *)
(***************************************************************************)
BotIdle ==
    /\ bot = NoBot
    /\ cycle = NoCycle
    /\ resources = [ib_connected |-> FALSE, sessions_open |-> TRUE]
    /\ stop = "none"

(***************************************************************************)
(* The analyzer's variables while only the aggregator runs                 *)
(***************************************************************************)
AnalyzerIdle ==
    /\ market_news = NoNews
    /\ oracle = Unavailable
    /\ analysis = NoAnalysis

(***************************************************************************)
(* Specification of the aggregator under concurrent callers and a clock:   *)
(* NewsAPI and RSS registered, each task ending with an exception, an      *)
(* empty list or one article.                                              *)
(***************************************************************************)
Stamps == {1, 2}

Init ==
    /\ clients = {"newsapi", "rss"}
    /\ cache = EmptyCache
    /\ now = 0
    /\ calls = [c \in Callers |-> IdleCall]
    /\ served = {}
    /\ AnalyzerIdle
    /\ RiskIdle
    /\ BotIdle

\* NewsAPI raises or delivers one article (h1, aware); RSS delivers nothing
\* or one article (h3, naive)
SlotOutcomes(f) ==
    IF f = "newsapi"
    THEN {Raised} \cup { Delivered(<<a>>) : a \in { x \in ArticlesOf(f, {"h1"}, {1}) : x.aware } }
    ELSE { Delivered(arts) : arts \in SeqsUpTo(ArticlesOf(f, {"h3"}, {1}), 1) }

Next ==
    \/ \E c \in DOMAIN calls, use_cache \in BOOLEAN : GetMarketNews(c, use_cache, TRUE)
    \/ \E c \in DOMAIN calls : GetSymbolNews(c)
    \/ \E c \in DOMAIN calls, f \in Fetchers :
           /\ TaskPending(c, f)
           /\ \E outcome \in SlotOutcomes(f) : TaskDone(c, f, outcome)
    \/ \E c \in DOMAIN calls : Gather(c)
    \/ Tick

Spec == Init /\ [][Next]_vars

(***************************************************************************)
(* Specification of one fetch pass over every client configuration: the    *)
(* tasks deliver at most MaxBatch articles together, drawn from all        *)
(* headlines, both instants and both kinds of datetime.                    *)
(***************************************************************************)
ClientConfigs == { S \cup {"rss"} : S \in SUBSET {"finnhub", "alpha_vantage", "newsapi"} }

InitFusion ==
    /\ clients \in ClientConfigs
    /\ cache = EmptyCache
    /\ now = 0
    /\ calls = [c \in {"c1"} |-> IdleCall]
    /\ served = {}
    /\ AnalyzerIdle
    /\ RiskIdle
    /\ BotIdle

\* articles the ended tasks of a pass have delivered so far
delivered(call) == Len(collect(call.tasks, call.results))

NextFusion ==
    \/ \E c \in DOMAIN calls, include_sentiment \in BOOLEAN :
           calls[c].pc = "idle" /\ GetMarketNews(c, TRUE, include_sentiment)
    \/ \E c \in DOMAIN calls : calls[c].pc = "idle" /\ GetSymbolNews(c)
    \/ \E c \in DOMAIN calls, f \in Fetchers :
           /\ TaskPending(c, f)
           /\ \E outcome \in TaskOutcomes(f, HeadlineIds, Stamps,
                                          MaxBatch - delivered(calls[c])) :
                  TaskDone(c, f, outcome)
    \/ \E c \in DOMAIN calls : Gather(c)

SpecFusion == InitFusion /\ [][NextFusion]_vars

(***************************************************************************)
(* Properties of the fetch pass (SpecFusion)                               *)
(***************************************************************************)
\* a call that ran a fetch pass to its end (returned or raised)
PassEnded(c) == calls[c].pc \in {"returned", "raised"} /\ ~calls[c].hit

\* all_articles of the pass: what the tasks that ended with a list delivered
Inputs(c) == collect(calls[c].tasks, calls[c].results)

\* headline lower-cased, trimmed, cut to its first 50 characters
HeadlineKeys == [h \in HeadlineIds |-> SubSeq(strip(lower(HeadlineText(h))), 1, 50)]

HeadlineKey(a) == HeadlineKeys[a.headline]

KeysOf(s) == { HeadlineKey(s[i]) : i \in 1..Len(s) }

\* C1: the article list returned by get_market_news (fresh pass) and by
\* get_symbol_news holds no two articles with the same normalised-headline key
C1_NoDuplicateKeys ==
    \A c \in DOMAIN calls :
        calls[c].pc = "returned" =>
            LET arts == calls[c].ret.articles
            IN \A i, j \in 1..Len(arts) :
                   i # j => HeadlineKey(arts[i]) # HeadlineKey(arts[j])

\* a pass returned although its tasks delivered two differently written
\* headlines with one key
C1_Witness ==
    \E c \in DOMAIN calls :
        /\ calls[c].pc = "returned" /\ ~calls[c].hit
        /\ \E i, j \in 1..Len(Inputs(c)) :
               /\ i # j
               /\ Inputs(c)[i].headline # Inputs(c)[j].headline
               /\ HeadlineKey(Inputs(c)[i]) = HeadlineKey(Inputs(c)[j])

\* C2: among the delivered articles that share a key, the one the pass
\* retains has the latest published_at, whatever the delivery order
C2_LatestRetained ==
    \A c \in DOMAIN calls :
        (calls[c].pc = "returned" /\ ~calls[c].hit) =>
            LET arts == calls[c].ret.articles
            IN \A i \in 1..Len(arts), k \in 1..Len(Inputs(c)) :
                   HeadlineKey(Inputs(c)[k]) = HeadlineKey(arts[i])
                       => Inputs(c)[k].published_at <= arts[i].published_at

\* every task of the pass failed: it raised or returned nothing
AllFailed(c) ==
    \A f \in DOMAIN calls[c].results :
        calls[c].results[f].kind = "exception" \/ calls[c].results[f].articles = <<>>

\* C7: a get_market_news pass in which every registered fetcher fails does
\* not raise and returns no articles and overall_sentiment 0.0
C7_AllFetchersFail ==
    \A c \in DOMAIN calls :
        (PassEnded(c) /\ calls[c].op = "market" /\ AllFailed(c)) =>
            /\ calls[c].pc = "returned"
            /\ calls[c].ret.articles = <<>>
            /\ calls[c].ret.overall_sentiment.num = 0

\* a pass over several clients ended with all of them failed, some by
\* raising and some by returning nothing
C7_Witness ==
    \E c \in DOMAIN calls :
        /\ PassEnded(c) /\ calls[c].op = "market" /\ AllFailed(c)
        /\ \E f, g \in DOMAIN calls[c].results :
               /\ calls[c].results[f].kind = "exception"
               /\ calls[c].results[g].kind = "list"

\* C8: whatever subset of the fetchers fails, the get_market_news pass
\* completes and returns the deduplicated union of the articles of exactly
\* the fetchers that succeeded
C8_UnionOfSucceeded ==
    \A c \in DOMAIN calls :
        (PassEnded(c) /\ calls[c].op = "market") =>
            LET arts == calls[c].ret.articles
            IN /\ calls[c].pc = "returned"
               /\ KeysOf(arts) = KeysOf(Inputs(c))
               /\ \A i \in 1..Len(arts) : \E k \in 1..Len(Inputs(c)) : arts[i] = Inputs(c)[k]
               /\ \A i, j \in 1..Len(arts) : i # j => HeadlineKey(arts[i]) # HeadlineKey(arts[j])

(***************************************************************************)
(* Properties of the cache slot (Spec)                                     *)
(***************************************************************************)
\* this step is caller c entering get_market_news
EntersMarket(c) ==
    /\ calls[c].pc # "fetching"
    /\ calls'[c] # calls[c]
    /\ calls'[c].op = "market"

\* the slot holds an entry younger than the TTL of 5 minutes
SlotYoung == cache_key \in DOMAIN cache /\ now - cache[cache_key][1] < 5

\* this step ends the fetch pass of a get_market_news call of c
EndsMarketPass(c) ==
    /\ calls[c].pc = "fetching"
    /\ calls[c].op = "market"
    /\ calls'[c].pc # "fetching"

\* C9: with use_cache and an entry younger than the TTL the call invokes no
\* fetcher and returns the cached list; any other call runs a fetch pass,
\* which overwrites the slot; so the calls served from one slot value get
\* identical article lists
C9_CacheContract ==
    [][\A c \in DOMAIN calls :
          /\ (EntersMarket(c) /\ calls'[c].use_cache /\ SlotYoung) =>
                 /\ calls'[c].pc = "returned"
                 /\ calls'[c].tasks = <<>>
                 /\ calls'[c].ret.articles = cache[cache_key][2]
                 /\ cache' = cache
          /\ (EntersMarket(c) /\ ~(calls'[c].use_cache /\ SlotYoung)) =>
                 /\ calls'[c].pc = "fetching"
                 /\ calls'[c].tasks # <<>>
          /\ EndsMarketPass(c) =>
                 /\ calls'[c].pc = "returned"
                 /\ cache' = CacheEntry(now, calls'[c].ret.articles)
          /\ Cardinality(served') <= 1]_vars

\* C10: the slot changes only in the step that ends a get_market_news fetch
\* pass, to the pair (time, deduplicated list) of that pass, and a call that
\* reads the slot gets the whole article list of the pair then in the slot
C10_SlotAtomic ==
    [][/\ cache' # cache =>
              \E c \in DOMAIN calls :
                  /\ EndsMarketPass(c)
                  /\ \A f \in DOMAIN calls[c].results : calls[c].results[f] # Pending
                  /\ calls'[c].pc = "returned"
                  /\ cache' = CacheEntry(now, calls'[c].ret.articles)
                  /\ calls'[c].ret.articles = deduplicate(Inputs(c)).value
       /\ \A c \in DOMAIN calls :
              (EntersMarket(c) /\ calls'[c].hit) =>
                  /\ cache' = cache
                  /\ calls'[c].ret.articles = cache[cache_key][2]]_vars

\* one call's fetch pass is in flight, with a task already ended, while the
\* slot holds a young entry that another call has been served from
C10_Witness ==
    \E c, d \in DOMAIN calls :
        /\ calls[c].pc = "fetching" /\ calls[c].op = "market"
        /\ \E f \in DOMAIN calls[c].results : calls[c].results[f] # Pending
        /\ calls[d].pc = "returned" /\ calls[d].hit
        /\ SlotYoung
        /\ calls[d].ret.articles = cache[cache_key][2]
        /\ cache[cache_key][2] # <<>>

(***************************************************************************)
(* Specification of one analyze_market call: the MarketNews and what the   *)
(* oracle does are drawn at the start.                                     *)
(***************************************************************************)
Texts == SeqsUpTo(Tokens, MaxTokens)

HasPayload(text) == \E i \in 1..Len(text) : text[i] = "JSON"

OracleOutcomes ==
    {Unavailable, NoContent}
    \cup { Reply(text, GoodObject) : text \in { t \in Texts : ~HasPayload(t) } }
    \cup { Reply(text, payload) : text \in { t \in Texts : HasPayload(t) }, payload \in Payloads }

\* no article, one with a naive and one with an aware published_at
AnalyzedNews ==
    { build_market_news(arts) : arts \in SeqsUpTo(ArticlesOf("newsapi", {"h1"}, {1}), 1) }

InitClassify ==
    /\ clients = {"rss"}
    /\ cache = EmptyCache
    /\ now = 0
    /\ calls = [c \in {"c1"} |-> IdleCall]
    /\ served = {}
    /\ market_news \in AnalyzedNews
    /\ oracle \in OracleOutcomes
    /\ analysis = NoAnalysis
    /\ RiskIdle
    /\ BotIdle

NextClassify == AnalyzeMarket

SpecClassify == InitClassify /\ [][NextClassify]_vars

(***************************************************************************)
(* Properties of the classification (SpecClassify)                         *)
(***************************************************************************)
\* the reply holds no complete JSON object: prose, an object cut off before
\* its end, stray fences, nothing at all, or a JSON value that is no object
Malformed(response) ==
    /\ response.kind = "reply"
    /\ \/ \A i \in 1..Len(response.text) : response.text[i] # "JSON"
       \/ response.payload.kind # "object"

\* _parse_response ran and analyze_market handed its result on
Parsed == analysis.pc = "done" /\ analysis.stage = "parse"

IsFallback(r) ==
    /\ r.regime = "HIGH_UNCERTAINTY"
    /\ r.confidence = 30
    /\ r.recommended_strategy = "cash"
    /\ r.position_size_modifier = 25
    /\ r.risk_level = "high"
    /\ Len(r.key_risks) = 1
    /\ r.sector_recommendations = <<>>

\* C3: on a malformed or truncated reply _parse_response returns exactly
\* the fallback RegimeAnalysis and raises nothing
C3_MalformedFallback ==
    (Parsed /\ Malformed(oracle)) =>
        /\ analysis.outcome = "returned"
        /\ IsFallback(analysis.value)
        /\ analysis.value.news_count = Len(market_news.articles)

\* a reply that opens a json fence and then breaks off was parsed
C3_Witness ==
    /\ Parsed /\ Malformed(oracle)
    /\ oracle.text = <<"FENCE_JSON", "TEXT">>
    /\ analysis.outcome = "returned"

\* C4: when the request to the oracle raises, analyze_market still returns
\* the fallback RegimeAnalysis
C4_OracleUnavailable ==
    (analysis.pc = "done" /\ analysis.stage = "oracle" /\ oracle.kind = "unavailable") =>
        /\ analysis.outcome = "returned"
        /\ IsFallback(analysis.value)

\* C5: every RegimeAnalysis returned has confidence and
\* position_size_modifier in [0, 1]
C5_FractionsInRange ==
    (analysis.pc = "done" /\ analysis.outcome = "returned") =>
        /\ 0 <= analysis.value.confidence /\ analysis.value.confidence <= 100
        /\ 0 <= analysis.value.position_size_modifier
        /\ analysis.value.position_size_modifier <= 100

\* C6: every RegimeAnalysis returned holds one of the five regimes and one
\* of the four strategies: a reply with any other token ends in the fallback
C6_ClosedEnums ==
    (analysis.pc = "done" /\ analysis.outcome = "returned") =>
        /\ analysis.value.regime \in
               {"TRENDING_BULLISH", "TRENDING_BEARISH", "RANGE_BOUND",
                "HIGH_UNCERTAINTY", "CRISIS"}
        /\ analysis.value.recommended_strategy \in
               {"momentum", "mean_reversion", "hedge", "cash"}

(***************************************************************************)
(* Specification of the risk manager: one RiskManager with the default     *)
(* limits, the arguments of the call drawn from SizingInputs, the call     *)
(* made up to MaxCalls times with update_capital in between.               *)
(***************************************************************************)
Capitals == {1000, 50000}

SizingInputs ==
    { Args(entry_price, strategy, signal_strength, exchange,
           current_portfolio_risk, volatility) :
        entry_price \in {0, 2500, 3333, 15000, 50000},
        strategy \in {"momentum", "mean_reversion", "hedge", "cash"},
        signal_strength \in {0, 20, 80, 100, 150},
        exchange \in {"XETRA", "NASDAQ", "LSE", "OTC", "SMART"},
        current_portfolio_risk \in {200, 1000, 1200},
        volatility \in {NoVolatility, <<0>>, <<100>>, <<200>>, <<-100>>} }

InitSizing ==
    /\ clients = {"rss"}
    /\ cache = EmptyCache
    /\ now = 0
    /\ calls = [c \in {"c1"} |-> IdleCall]
    /\ served = {}
    /\ AnalyzerIdle
    /\ rm \in { RiskManager(total_capital) : total_capital \in Capitals }
    /\ sizing \in { [NoSizing EXCEPT !.args = a] : a \in SizingInputs }
    /\ BotIdle

NextSizing ==
    \/ CalculatePositionSize
    \/ \E new_capital \in Capitals : UpdateCapital(new_capital)

SpecSizing == InitSizing /\ [][NextSizing]_vars

(***************************************************************************)
(* Properties of the sizing (SpecSizing)                                   *)
(***************************************************************************)
\* the share counts of the two limits and the scaled count, for the capital
\* of the last call and a positive risk per share
RiskPerShare(a) ==
    a.entry_price * stop_percentages(a.strategy, a.volatility).stop_loss_pct

FloorByRisk(a) ==
    (sizing.capital * rm.max_risk_per_trade * 100) \div RiskPerShare(a)

FloorByCapital(a) ==
    (sizing.capital * rm.max_position_pct) \div (a.entry_price * 100)

ScaledShares(a) ==
    (min(FloorByRisk(a), FloorByCapital(a)) * a.signal_strength) \div 100

PastRiskLimit(a) == a.current_portfolio_risk < rm.max_portfolio_risk

\* C11: a call with current_portfolio_risk >= max_portfolio_risk_pct, equality
\* included, returns the portfolio-risk-limit rejection: not viable, no
\* shares, and no stop or target price derived, since no later step ran.
C11_RiskLimitInclusive ==
    (sizing.n > 0 /\ sizing.args.current_portfolio_risk >= rm.max_portfolio_risk)
    => sizing.result =
         PositionSizeResult(0, 0, 0, 0, 0, FALSE, "Portfolio-Risiko-Limit erreicht")

\* the risk equals the limit, on arguments that pass every later step
C11_Witness ==
    /\ sizing.n > 0
    /\ sizing.args.current_portfolio_risk = rm.max_portfolio_risk
    /\ sizing.capital = 50000 /\ sizing.args.entry_price = 15000
    /\ sizing.args.signal_strength = 80 /\ sizing.args.exchange = "NASDAQ"
    /\ sizing.result.reason = "Portfolio-Risiko-Limit erreicht"

\* C12: the "position too small" reason is returned, with viable = false and
\* no shares, exactly when the call passes the risk limit and the stop-loss
\* check and the scaled, floored share count is below 1; the risk-limit and
\* the cost rejections so carry other reasons.
C12_TooSmallReason ==
    sizing.n > 0 =>
      LET a == sizing.args
          small == /\ PastRiskLimit(a)
                   /\ RiskPerShare(a) > 0
                   /\ ScaledShares(a) < 1
      IN /\ small <=> sizing.result.reason = "Position zu klein nach Anpassung"
         /\ small => ~sizing.result.viable /\ sizing.result.shares = 0

\* one share fits both limits and the signal strength scales it away
C12_Witness ==
    /\ sizing.n > 0
    /\ sizing.result.reason = "Position zu klein nach Anpassung"
    /\ sizing.args.signal_strength = 80
    /\ FloorByCapital(sizing.args) = 1

\* C13: a sizing call leaves total_capital and every limit as they are, only
\* update_capital changes the RiskManager and it changes total_capital alone,
\* and a call repeated with the capital of the call before returns the result
\* of the call before.
C13_SizingPure ==
    [][/\ sizing'.n # sizing.n => rm' = rm
       /\ rm' # rm => /\ sizing' = sizing
                      /\ rm' = [rm EXCEPT !.total_capital = rm'.total_capital]
       /\ (sizing'.n # sizing.n /\ sizing.n > 0 /\ sizing.capital = rm.total_capital)
            => sizing'.result = sizing.result]_vars

\* two calls on the same capital, both viable
C13_Witness ==
    /\ sizing.n = 2
    /\ sizing.capital = sizing.prev_capital
    /\ sizing.result.viable /\ sizing.prev_result.viable

\* C14: a viable result for a signal strength in [0,1] and a positive entry
\* price has at most floor(max_position_pct * capital / entry_price) and at
\* most floor(max_risk_per_trade_pct * capital / riskPerShare) shares, so its
\* position value and risk amount stay within the two limits.
C14_WithinLimits ==
    (/\ sizing.n > 0
     /\ sizing.args.signal_strength \in 0..100
     /\ sizing.args.entry_price > 0
     /\ sizing.result.viable)
    => /\ sizing.result.shares <= FloorByCapital(sizing.args)
       /\ sizing.result.shares <= FloorByRisk(sizing.args)
       /\ sizing.result.position_value * 100 <= rm.max_position_pct * sizing.capital
       /\ sizing.result.risk_amount <= rm.max_risk_per_trade * sizing.capital * 100

\* a viable result at full signal strength that uses the position limit up
C14_Witness ==
    /\ sizing.n > 0
    /\ sizing.result.viable
    /\ sizing.args.signal_strength = 100
    /\ sizing.result.shares = FloorByCapital(sizing.args)
    /\ FloorByRisk(sizing.args) > FloorByCapital(sizing.args)

\* the default percentages as the claim lists them, in basis points
DefaultPercentages(strategy) ==
    CASE strategy = "momentum" -> <<500, 1500>>
      [] strategy = "mean_reversion" -> <<300, 600>>
      [] strategy = "hedge" -> <<700, 1000>>
      [] OTHER -> <<400, 800>>

DemoArgs == Args(15000, "momentum", 80, "NASDAQ", 200, NoVolatility)

\* C15: without a volatility the stop and the target lie 5%/15% (momentum),
\* 3%/6% (mean_reversion), 7%/10% (hedge), 4%/8% (any other strategy) from the
\* entry price; capital 50000, entry 150, momentum, signal 0.8, NASDAQ, risk
\* 0.02 gives stop-loss 142.50, take-profit 172.50, shares > 0, viable.
C15_DefaultStops ==
    sizing.n > 0 =>
      LET a == sizing.args
          d == DefaultPercentages(a.strategy)
          stop_price == a.entry_price * (BasisPoints - d[1])
          target_price == a.entry_price * (BasisPoints + d[2])
      IN /\ (a.volatility = NoVolatility /\ PastRiskLimit(a))
              => IF sizing.result.viable
                 THEN /\ sizing.result.stop_loss_price = round(stop_price)
                      /\ sizing.result.take_profit_price = round(target_price)
                 ELSE /\ sizing.result.stop_loss_price = stop_price
                      /\ sizing.result.take_profit_price = target_price
         /\ (a = DemoArgs /\ sizing.capital = 50000)
              => /\ sizing.result.stop_loss_price = 14250 * Micro
                 /\ sizing.result.take_profit_price = 17250 * Micro
                 /\ sizing.result.shares > 0
                 /\ sizing.result.viable

\* the scenario has been sized
C15_Witness ==
    /\ sizing.n > 0
    /\ sizing.args = DemoArgs
    /\ sizing.capital = 50000
    /\ sizing.result.shares = 12

(***************************************************************************)
(* Specification of the bot: the driving loop over up to MaxCycles trading *)
(* cycles, with the replies, portfolios, account values and prices below,  *)
(* a shutdown() call by another task and an interrupt at any await.        *)
(***************************************************************************)
BotReply(re, co, st, ps) == Reply(<<"JSON">>, JsonObject(re, co, st, ps, JAbsent))

\* the replies of the oracle: the regimes CRISIS and RANGE_BOUND with each
\* strategy, a position_size_modifier at and below 0.25, a confidence above
\* 1, a reply that is no JSON, and no reply
BotReplies ==
    { BotReply(JStr("CRISIS"), JNum(80), JStr("momentum"), JNum(100)),
      BotReply(JStr("CRISIS"), JNum(80), JStr("cash"), JNum(100)),
      BotReply(JAbsent, JNum(80), JStr("momentum"), JNum(100)),
      BotReply(JAbsent, JNum(80), JStr("mean_reversion"), JNum(25)),
      BotReply(JAbsent, JNum(80), JStr("hedge"), JNum(100)),
      BotReply(JAbsent, JNum(80), JStr("cash"), JNum(100)),
      BotReply(JAbsent, JNum(80), JStr("momentum"), JNum(20)),
      BotReply(JAbsent, JNum(150), JStr("momentum"), JNum(100)),
      Reply(<<"TEXT">>, GoodObject),
      Unavailable }

\* ib.portfolio(): long and short positions bought at 100, some on the
\* watchlist, one large enough to use the portfolio risk limit up
Portfolios ==
    { <<>>,
      <<Position("AAPL", 100, 100, 93)>>,
      <<Position("SAP", -100, 100, 108)>>,
      <<Position("AAPL", 100, 100, 96), Position("SAP", 100, 100, 112)>>,
      <<Position("SAP", -100, 100, 104), Position("MSFT", 100, 100, 100)>>,
      <<Position("SAP", 1000, 100, 100)>> }

\* ib.accountValues()
AccountValues ==
    { <<AccountValue("AvailableFunds", "USD", 60000)>>,
      <<AccountValue("AvailableFunds", "EUR", 499)>>,
      <<AccountValue("NetLiquidation", "EUR", 90000),
        AccountValue("AvailableFunds", "EUR", 500)>> }

\* ticker.last
Prices == {NoPrice, <<NaN>>, <<0>>, <<15000>>}

InitBot ==
    /\ clients = {"rss"}
    /\ cache = EmptyCache
    /\ now = 0
    /\ calls = [c \in {"c1"} |-> IdleCall]
    /\ served = {}
    /\ AnalyzerIdle
    /\ RiskIdle
    /\ BotIdle

NextBot ==
    \/ \E connects \in BOOLEAN : Start(connects)
    \/ OffHours
    \/ BeginCycle
    \/ WakeUp
    \/ LoopExit
    \/ ShutdownCompletes
    \/ \E news \in AnalyzedNews : NewsReturns(news)
    \/ NewsRaises
    \/ VixReturns
    \/ \E response \in BotReplies : AnalyzeRaises(response)
    \/ \E response \in BotReplies, portfolio \in Portfolios,
          account_values \in AccountValues :
           AnalyzeReturns(response, portfolio, account_values)
    \/ TradeDone
    \/ \E last \in Prices : PriceArrives(last)
    \/ StopRequest
    \/ StopRelease
    \/ Interrupt

SpecBot == InitBot /\ [][NextBot]_vars

(***************************************************************************)
(* Properties of the trading cycle (SpecBot)                               *)
(***************************************************************************)
\* the pass has taken its portfolio snapshot and handled every position
PositionsHandled == cycle.gate # "none"

\* the thresholds the exit checks of the cycle were made with are those of
\* the regime the cycle has set
ChecksOfCycle == { cycle.checks[k] : k \in 1..Len(cycle.checks) }

C17_SameThresholds ==
    bot.current_regime.regime # "CRISIS" =>
      \A check \in ChecksOfCycle :
        LET pct == stop_percentages(bot.current_regime.recommended_strategy,
                                    NoVolatility)
        IN /\ check.stop_loss = -pct.stop_loss_pct
           /\ check.take_profit = pct.take_profit_pct

\* the three conditions of the opportunity search, as the claim lists them
SearchConditions ==
    /\ bot.current_regime.regime # "CRISIS"
    /\ cycle.available_cash >= 500
    /\ bot.current_regime.position_size_modifier >= 25

\* C18: a cycle that comes to its step 6 runs the opportunity search if and
\* only if the regime is not CRISIS, the available cash is at least the
\* minimum trade capital and position_size_modifier is at least 0.25; a
\* cycle that does not run the search requests no price and sizes nothing.
C18_SearchGate ==
    /\ cycle.gate = "open" => SearchConditions
    /\ cycle.gate = "closed" => ~SearchConditions
    /\ (cycle.outcome = "returned" /\ cycle.ended_in = "end") => cycle.gate # "none"
    /\ cycle.gate # "open" =>
         cycle.priced = <<>> /\ cycle.sizings = <<>> /\ cycle.candidates = <<>>

\* the search ran with both thresholds met exactly, and sized a symbol
C18_Witness ==
    /\ cycle.gate = "open"
    /\ cycle.available_cash = 500
    /\ bot.current_regime.position_size_modifier = 25
    /\ Len(cycle.sizings) > 0

\* C19: at most one pass is in progress, it is the pass of the latest cycle,
\* and while it is in progress the loop stands at the await of that pass: the
\* next cycle begins only once the pass has returned or raised.
C19_OnePassAtATime ==
    /\ Cardinality(bot.in_progress) <= 1
    /\ bot.in_progress # {} =>
         /\ bot.in_progress = {bot.cycle_count}
         /\ cycle.n = bot.cycle_count /\ cycle.outcome = "running"
         /\ bot.pc = "in_cycle"
    /\ bot.pc = "in_cycle" => bot.in_progress # {}

\* the second cycle is in progress, after a first one that closed positions
\* and priced symbols
C19_Witness ==
    /\ bot.cycle_count = 2
    /\ bot.in_progress = {2}
    /\ cycle.pc = "pricing"
    /\ Len(cycle.orders) = 2

\* C20: a pass in progress has the broker connected and the fetcher sessions
\* open, and no pass is left before its end: a stop takes effect between
\* cycles only.
C20_StopBetweenCycles ==
    /\ bot.in_progress # {} => resources.ib_connected /\ resources.sessions_open
    /\ cycle.outcome # "aborted"

\* C21: a pass that a failing collaborator has not made raise goes on to its
\* position handling: when it has returned, it has taken the portfolio
\* snapshot and evaluated the exit conditions of every held position.
C21_FailureContinues ==
    cycle.outcome = "returned" =>
      PositionsHandled /\ Len(cycle.checks) = Len(cycle.portfolio)

\* C22: the exception a pass raises takes the loop to its cooldown sleep
\* with is_running as it was; the cooldown ends at the while test, where the
\* next cycle is begun; and the running loop goes to its shutdown only by an
\* interrupt or after a stop request.
C22_FailureKeepsLoop ==
    [][/\ (cycle.outcome = "running" /\ cycle'.outcome = "raised")
            => bot'.pc = "cooldown" /\ bot'.is_running = bot.is_running
       /\ (bot.pc = "cooldown" /\ bot'.pc # "cooldown")
            => bot'.pc = "loop" \/ Interrupt
       /\ (bot.pc \in {"loop", "in_cycle", "off_hours", "interval", "cooldown"}
             /\ bot'.pc = "closing")
            => Interrupt \/ stop # "none"]_vars

\* the second cycle has raised in the sizing of a price that is no number,
\* the cooldown is over and the loop, still running, is at its while test
C22_Witness ==
    /\ cycle.n = 2
    /\ cycle.outcome = "raised" /\ cycle.ended_in = "sizing"
    /\ bot.pc = "loop" /\ bot.is_running /\ stop = "none"

(***************************************************************************)
(* Further properties of the classification (SpecClassify)                 *)
(***************************************************************************)
\* one complete JSON value in a json fence, in a bare fence, or with prose
\* before it, after it, or both
Wrapped(text) ==
    text \in { <<"FENCE_JSON", "JSON", "FENCE">>, <<"FENCE", "JSON", "FENCE">>,
               <<"TEXT", "JSON">>, <<"JSON", "TEXT">>, <<"TEXT", "JSON", "TEXT">> }

\* C23: a reply that wraps the complete reply object in a json fence, a bare
\* fence or prose is parsed into the RegimeAnalysis of that object's values,
\* not into the fallback.
C23_WrappedObjectParsed ==
    (Parsed /\ Wrapped(oracle.text) /\ oracle.payload = GoodObject) =>
        /\ analysis.outcome = "returned"
        /\ ~IsFallback(analysis.value)
        /\ analysis.value.regime = "TRENDING_BULLISH"
        /\ analysis.value.confidence = 80
        /\ analysis.value.recommended_strategy = "momentum"
        /\ analysis.value.position_size_modifier = 100
        /\ analysis.value.sector_recommendations = <<"technology">>

\* the reply is one JSON object and nothing else, and every field it holds
\* has a value of the field's kind
FieldsAbsentOrValid(response) ==
    /\ response.kind = "reply" /\ response.text = <<"JSON">>
    /\ response.payload.kind = "object"
    /\ response.payload.regime \in {JAbsent, JStr("CRISIS"), JStr("trending_bullish")}
    /\ response.payload.confidence \in {JAbsent, JNum(80), JNum(150)}
    /\ response.payload.recommended_strategy \in
           {JAbsent, JStr("momentum"), JStr("scalping")}
    /\ response.payload.position_size_modifier \in {JAbsent, JNum(100), JNum(-50)}
    /\ response.payload.sector_recommendations = JAbsent

\* C24: a reply that is a JSON object with any of its fields absent is
\* parsed without fallback and without exception; an absent field takes its
\* default (regime RANGE_BOUND, confidence 0.5, recommended_strategy
\* mean_reversion, position_size_modifier 0.5, risk_level medium, empty
\* lists), a present field keeps its value.
C24_AbsentFieldsDefault ==
    (Parsed /\ FieldsAbsentOrValid(oracle)) =>
        LET data == oracle.payload
            r == analysis.value
        IN /\ analysis.outcome = "returned"
           /\ r.regime = CASE data.regime = JAbsent -> "RANGE_BOUND"
                            [] data.regime = JStr("CRISIS") -> "CRISIS"
                            [] OTHER -> "TRENDING_BULLISH"
           /\ r.confidence = IF data.confidence = JAbsent THEN 50
                              ELSE data.confidence[2]
           /\ r.recommended_strategy =
                  IF data.recommended_strategy = JAbsent THEN "mean_reversion"
                  ELSE data.recommended_strategy[2]
           /\ r.position_size_modifier =
                  IF data.position_size_modifier = JAbsent THEN 50
                  ELSE data.position_size_modifier[2]
           /\ r.risk_level = "medium"
           /\ r.sector_recommendations = <<>> /\ r.key_risks = <<>>

\* the empty object was parsed: every field took its default
C24_Witness ==
    /\ Parsed /\ FieldsAbsentOrValid(oracle)
    /\ oracle.payload.regime = JAbsent
    /\ oracle.payload.confidence = JAbsent
    /\ oracle.payload.recommended_strategy = JAbsent
    /\ oracle.payload.position_size_modifier = JAbsent
    /\ analysis.value.regime = "RANGE_BOUND"

(***************************************************************************)
(* Further properties of the sizing (SpecSizing)                           *)
(***************************************************************************)
\* the call passes the risk limit, the stop-loss check and the minimum of
\* one share, and so comes to its cost gate
ReachesCostGate(a) ==
    /\ PastRiskLimit(a)
    /\ a.entry_price > 0 /\ RiskPerShare(a) > 0
    /\ ScaledShares(a) >= 1

\* twice the commission and twice the spread estimate of the scaled share
\* count, in millionths; the order value, in cents
RoundTrip(a) ==
    LET costs == calculate_stock_cost(a.exchange, ScaledShares(a), a.entry_price)
    IN 2 * costs.commission + 2 * costs.spread_estimate

OrderValue(a) == ScaledShares(a) * a.entry_price

\* take-profit percentage x 100, in hundredths of a percent
ExpectedReturn(a) == stop_percentages(a.strategy, a.volatility).take_profit_pct

\* C25: a call that comes to the cost gate is viable exactly when the
\* expected return is strictly greater than twice breakeven_move, the
\* round-trip cost as a percentage of the order value; an expected return
\* equal to or below that product is rejected for its costs.
C25_CostGateStrict ==
    (sizing.n > 0 /\ ReachesCostGate(sizing.args)) =>
      LET a == sizing.args
          pays == ExpectedReturn(a) * OrderValue(a) > 2 * RoundTrip(a)
      IN /\ sizing.result.viable <=> pays
         /\ ~pays => /\ sizing.result.reason = "Gebuehren zu hoch"
                      /\ sizing.result.shares = 0

\* one share at 500 with target 2%: round trip 5.00, breakeven 1%, and the
\* expected return equals twice the breakeven; the call is rejected
C25_Witness ==
    /\ sizing.n > 0 /\ ReachesCostGate(sizing.args)
    /\ sizing.args.entry_price = 50000 /\ ScaledShares(sizing.args) = 1
    /\ ExpectedReturn(sizing.args) = 200
    /\ RoundTrip(sizing.args) = 500 * Micro
    /\ ExpectedReturn(sizing.args) * OrderValue(sizing.args)
         = 2 * RoundTrip(sizing.args)
    /\ ~sizing.result.viable

(***************************************************************************)
(* Further properties of the trading cycle (SpecBot)                       *)
(***************************************************************************)
\* the symbols of the cycle's portfolio snapshot, of its close orders, and
\* those it has sized
SnapshotSymbols == { cycle.portfolio[k].symbol : k \in 1..Len(cycle.portfolio) }

ClosedSymbols == { cycle.orders[k].symbol : k \in 1..Len(cycle.orders) }

SizedSymbols == { cycle.sizings[k].symbol : k \in 1..Len(cycle.sizings) }

\* C26: the cycle requests a price and calls the sizing only for symbols of
\* the watch list that are not in its portfolio snapshot, a symbol whose
\* close order it has placed included; its candidates are the sized symbols
\* whose result is viable, and no others.
C26_OnlyUnheldSized ==
    /\ \A k \in 1..Len(cycle.priced) :
          /\ cycle.priced[k] \in {"AAPL", "MSFT", "GOOGL"}
          /\ cycle.priced[k] \notin SnapshotSymbols
    /\ SizedSymbols \subseteq { cycle.priced[k] : k \in 1..Len(cycle.priced) }
    /\ SizedSymbols \cap ClosedSymbols = {}
    /\ \A k \in 1..Len(cycle.candidates) :
          \E n \in 1..Len(cycle.sizings) :
             /\ cycle.sizings[n].symbol = cycle.candidates[k]
             /\ cycle.sizings[n].result.viable
    /\ \A n \in 1..Len(cycle.sizings) :
          cycle.sizings[n].result.viable =>
             \E k \in 1..Len(cycle.candidates) :
                cycle.candidates[k] = cycle.sizings[n].symbol

\* AAPL was held and its close order placed; the search then sized MSFT and
\* GOOGL, and surfaced a candidate
C26_Witness ==
    /\ "AAPL" \in ClosedSymbols
    /\ cycle.gate = "open"
    /\ SizedSymbols = {"MSFT", "GOOGL"}
    /\ Len(cycle.candidates) > 0
    /\ cycle.outcome = "returned"

\* C27: every sizing result that the cycle surfaces as viable, made with the
\* confidence of the accepted reply as its signal strength, has a position
\* value of at most max_position_pct of the capital and a risk amount of at
\* most max_risk_per_trade of it.
C27_CandidatesWithinLimits ==
    \A n \in 1..Len(cycle.sizings) :
       LET result == cycle.sizings[n].result
       IN result.viable =>
            /\ cycle.sizings[n].args.signal_strength = bot.current_regime.confidence
            /\ result.position_value * 100 <= rm.max_position_pct * rm.total_capital
            /\ result.risk_amount <= rm.max_risk_per_trade * rm.total_capital * 100

\* the sign of a number
sign(x) == IF x > 0 THEN 1 ELSE IF x < 0 THEN -1 ELSE 0

\* C28: outside CRISIS, the P&L fraction of every exit check has the sign of
\* the position's unrealized P&L, quantity x (market price - average cost);
\* and a short position whose price has risen above its average cost by at
\* least the stop-loss percentage is exited by the stop-loss rule.
C28_PnlSignOfPosition ==
    bot.current_regime.regime # "CRISIS" =>
      \A k \in 1..Len(cycle.checks) :
         LET position == cycle.portfolio[k]
             check == cycle.checks[k]
             rise == position.marketPrice - position.averageCost
         IN /\ sign(check.pnl.num) * sign(check.pnl.den)
                 = sign(position.position * rise)
            /\ (position.position < 0
                  /\ rise * BasisPoints >= (0 - check.stop_loss) * position.averageCost)
                 => check.should_exit /\ check.reason = "Stop-Loss erreicht"

(***************************************************************************)
(* Further properties of the cache slot (Spec)                             *)
(***************************************************************************)
\* C30: the step that ends a get_market_news pass whose fetchers all failed
\* writes the slot with the empty list and the time of the step, whatever
\* the slot held; and a use_cache call that finds that entry younger than
\* the TTL starts no fetcher and returns no article and sentiment 0.0.
C30_EmptyPassCached ==
    [][\A c \in DOMAIN calls :
          /\ (EndsMarketPass(c) /\ AllFailed(c)) =>
                 /\ calls'[c].pc = "returned"
                 /\ cache' = CacheEntry(now, <<>>)
          /\ (EntersMarket(c) /\ calls'[c].use_cache /\ SlotYoung
                /\ cache[cache_key][2] = <<>>) =>
                 /\ calls'[c].pc = "returned"
                 /\ calls'[c].tasks = <<>>
                 /\ calls'[c].ret.articles = <<>>
                 /\ calls'[c].ret.overall_sentiment.num = 0
                 /\ cache' = cache]_vars

\* a pass with NewsAPI raising and RSS delivering nothing has written the
\* slot at a later time than 0, and another call was served the empty list
\* from it
C30_Witness ==
    \E c, d \in DOMAIN calls :
        /\ calls[d].pc = "returned" /\ ~calls[d].hit /\ calls[d].op = "market"
        /\ AllFailed(d) /\ calls[d].results["newsapi"].kind = "exception"
        /\ SlotYoung /\ cache[cache_key][1] > 0 /\ cache[cache_key][2] = <<>>
        /\ calls[c].pc = "returned" /\ calls[c].hit
        /\ calls[c].ret.articles = <<>>

(***************************************************************************)
(* Specification of the risk manager on arguments of any kind: an entry    *)
(* price that is no number, negative or 0, a negative signal strength, a   *)
(* negative volatility.                                                    *)
(***************************************************************************)
AnySizingInputs ==
    { Args(entry_price, strategy, signal_strength, exchange,
           current_portfolio_risk, volatility) :
        entry_price \in {NaN, -10000, 0, 100, 15000},
        strategy \in {"momentum", "mean_reversion", "hedge"},
        signal_strength \in {-100, 0, 80, 150},
        exchange \in {"SMART", "OTC"},
        current_portfolio_risk \in {200, 1000},
        volatility \in {NoVolatility, <<-1000>>, <<200>>} }

InitSizingAny ==
    /\ clients = {"rss"}
    /\ cache = EmptyCache
    /\ now = 0
    /\ calls = [c \in {"c1"} |-> IdleCall]
    /\ served = {}
    /\ AnalyzerIdle
    /\ rm \in { RiskManager(total_capital) : total_capital \in Capitals }
    /\ sizing \in { [NoSizing EXCEPT !.args = a] : a \in AnySizingInputs }
    /\ BotIdle

SpecSizingAny == InitSizingAny /\ [][NextSizing]_vars

\* C29: no call raises; a result that is not viable has no shares, no
\* position value and no risk amount; a viable one has at least one share,
\* position value shares x entry_price and risk amount shares x risk per
\* share; an entry price of 0, and a negative volatility where the strategy
\* takes its stop from the volatility, end in the invalid-stop-loss
\* rejection once the risk limit is passed.
C29_ResultWellFormed ==
    sizing.n > 0 =>
      LET a == sizing.args
          result == sizing.result
      IN /\ result # ValueError
         /\ ~result.viable =>
               result.shares = 0 /\ result.position_value = 0 /\ result.risk_amount = 0
         /\ result.viable =>
               /\ result.shares >= 1
               /\ result.position_value = result.shares * a.entry_price
               /\ result.risk_amount = result.shares * RiskPerShare(a)
         /\ (/\ PastRiskLimit(a)
             /\ \/ a.entry_price = 0
                \/ /\ a.entry_price > 0
                   /\ a.volatility = <<-1000>>
                   /\ a.strategy \in {"momentum", "mean_reversion"})
               => result.reason = "Ungueltiger Stop-Loss"
====
